---- MODULE Spec2Model ----
\* Model of the in-memory task scheduler (QueueManager, src/unnamed/part_002),
\* of the workers that poll it (Worker, src/distributed-task-queue/src/config.ts)
\* and of the two supervisors of the worker processes (workers/cluster.ts and
\* index.ts).  The workers are callers of one QueueManager object.
\*
\* Time is a discrete clock `now` (the value Date.now() returns); a setTimeout
\* callback fires when the clock reaches its expiry.  Task ids (uuidv4 in the
\* source) are the naturals 1, 2, 3, ... in order of submission; an id is
\* never handed out twice.
\*
\* A task record keeps the fields the scheduler reads (priority, status,
\* retries, maxRetries, createdAt, startedAt, workerId); the fields it only
\* writes (type, payload, updatedAt, completedAt, failedAt, nextRetryAt,
\* lastError) and the result values are left out.  avgProcessingTime is an
\* exact fraction <<numerator, denominator>> where the source has a double.
EXTENDS Integers, Sequences, FiniteSets, TLC

\* ---------------------------------------------------------------- bounds
\* Spec: the scheduler driven by one worker and by calls with unknown ids
MaxTasks == 2
MaxTime == 3
\* SpecLanes: three tasks, to fill the lanes
LaneTasks == 3
LaneTime == 1
\* SpecWorkers: worker processes that stop, crash and are respawned
PoolTasks == 1
PoolTime == 1
MaxSpawns == 3
\* SpecPoll: two workers polling the same lanes
PollTasks == 2
PollTime == 1
\* SpecLoop: one worker identity that heartbeats, is stopped and is started again
LoopTasks == 2
LoopTime == 1
LoopSpawns == 2
\* the supervisors: size of the pool and number of unasked exits
NumWorkers == 2
MaxCrashes == 2
\* SpecReport: a worker whose report of a completion may throw
ReportTasks == 2
ReportTime == 1
\* SpecRegistry: the worker table
RegistryTasks == 1
RegistrySpawns == 3

\* SpecDrain: tasks worked off by one worker
DrainTasks == 2
DrainTime == 2

\* SpecRetry: time enough for the retries of the default bound (1 + 2 + 4)
RetryTasks == 1
RetryTime == 7

\* SpecGiven: submissions with a maxRetries value
GivenTasks == 2
GivenTime == 2

\* SpecRoutes: the route of single submissions
RouteTasks == 2
RouteTime == 1

\* SpecBatch: the route of batch submissions
BatchTasks == 3
BatchLen == 3

\* SpecStatus: status and statistics queries
StatusTasks == 2
StatusTime == 1

\* SpecBackoff: a worker whose getNextTask and heartbeat calls may raise
BackoffTasks == 1
BackoffTime == 2
BackoffSpawns == 2

\* the sleep(1000) after a poll error, in ticks of the clock (1000 ms)
PollBackoff == 1

\* config.worker.retryDelay, in ticks of the clock
RetryDelay == 1
\* the supervisors' timers, in seconds
RespawnDelay == 1
ShutdownTimeout == 10
IndexExitDelay == 5

\* ------------------------------------------------------------- constants
DefaultMaxRetries == 3

None == 0
NoTime == 0 - 1

WorkerIds == {"worker-1", "worker-2"}
Solo == {"worker-1"}
Priorities == <<"high", "normal", "low">>
PrioritySet == {"high", "normal", "low"}
\* values of taskData.maxRetries handed to addTask; 0 stands for 0 and for
\* "not given", which the source treats alike
MaxRetriesArgs == {0, 1}

VARIABLES
  queues,      \* this.queues: lane -> sequence of ids, index 1 is the array's index 0
  processing,  \* this.processing: sequence of ids
  tasks,       \* key set of this.tasks
  taskObj,     \* the reachable Task objects, by id: those of this.tasks and
               \* those an armed retry callback still holds after a clear
  results,     \* key set of this.results
  workers,     \* this.workers: worker id -> Worker record
  stats,       \* this.stats
  timers,      \* armed setTimeout callbacks of failTask
  now,         \* Date.now()
  nextId,      \* next fresh task id
  alive,       \* worker id -> its process is running
  isRunning,   \* worker id -> Worker.isRunning
  cur,         \* worker id -> id of the task its processTask is executing
  currentTask, \* worker id -> id of Worker.currentTask, None for null
  spawns,      \* number of worker process starts so far
  lastOp,      \* the operation of the latest step, its argument and its return value
  emitted,     \* events emitted by the latest step, in order
  arrival,     \* history: lane -> stored pending tasks in order of (re-)enqueue
  fails,       \* history: id -> number of failTask calls that found the task
  sumDur,      \* history: sum of the processing times completed since the last clear
  nDone,       \* history: number of completions since the last clear
  forked,      \* supervisor: the live worker processes it keeps in its workers map
  forks,       \* supervisor: number of cluster.fork calls so far
  respawn,     \* supervisor: armed respawn timers, with the seconds left
  master,      \* supervisor: "running", "shutdown", or exited with "exit0" / "exit1"
  shutdownLeft,\* supervisor: seconds left on the shutdown timer, NoTime if not armed
  checkDue,    \* supervisor: the 100 ms check has not yet run in this second
  crashes,     \* history: number of worker processes that exited unasked
  wake,        \* per worker: the time at which the sleep after a poll error resolves
  returned,    \* the object last returned by a query or a submission route, in its caller's hands
  lastEvent,   \* history: per task, the task event emitted last
  fetches      \* history: per task, the number of times getNextTask returned it

supVars == <<forked, forks, respawn, master, shutdownLeft, checkDue, crashes>>

queueVars == <<queues, processing, tasks, taskObj, results, workers, stats, timers,
               now, nextId, alive, isRunning, cur, currentTask, spawns, lastOp, emitted,
               arrival, fails, sumDur, nDone, wake, returned, lastEvent, fetches>>

vars == <<queues, processing, tasks, taskObj, results, workers, stats, timers,
          now, nextId, alive, isRunning, cur, currentTask, spawns, lastOp, emitted,
          arrival, fails, sumDur, nDone,
          forked, forks, respawn, master, shutdownLeft, checkDue, crashes, wake, returned, lastEvent,
          fetches>>

schedVars == <<queues, processing, tasks, taskObj, results, workers, stats, timers>>

\* ------------------------------------------------------------- helpers
RECURSIVE Pow2(_)
Pow2(k) == IF k <= 0 THEN 1 ELSE 2 * Pow2(k - 1)

RECURSIVE Gcd(_, _)
Gcd(a, b) == IF b = 0 THEN a ELSE Gcd(b, a % b)

Reduce(n, d) == LET g == Gcd(n, d) IN IF g = 0 THEN <<0, 1>> ELSE <<n \div g, d \div g>>

IndexOf(s, x) == IF \E i \in 1..Len(s) : s[i] = x
                 THEN CHOOSE i \in 1..Len(s) : s[i] = x /\ \A j \in 1..(i - 1) : s[j] # x
                 ELSE 0

Splice(s, i) == SubSeq(s, 1, i - 1) \o SubSeq(s, i + 1, Len(s))

Unshift(s, x) == <<x>> \o s

RemoveFirst(s, x) == IF IndexOf(s, x) > 0 THEN Splice(s, IndexOf(s, x)) ELSE s

Op(name, w, id, ret) == [op |-> name, worker |-> w, id |-> id, ret |-> ret]

Ev(name, id) == [event |-> name, id |-> id]

\* the events of a task's life
TaskEvents ==
  {"task:created", "task:processing", "task:retrying", "task:completed", "task:failed"}

\* the task event of the list evs that is the last one about the task id, ""
\* if there is none
LastIn(evs, id) ==
  LET about == {i \in 1..Len(evs) : evs[i].event \in TaskEvents /\ evs[i].id = id} IN
  IF about = {} THEN ""
  ELSE evs[CHOOSE i \in about : \A j \in about : j <= i].event

\* the last event per task after the events evs
Track(last, evs) ==
  LET named == {evs[i].id : i \in {j \in 1..Len(evs) : evs[j].event \in TaskEvents}} IN
  [id \in (DOMAIN last) \cup named |->
     IF LastIn(evs, id) # "" THEN LastIn(evs, id) ELSE last[id]]

\* the number of returns per task after the events evs: a task is returned
\* by the branch of getNextTask that emits task:processing, and counted from
\* its creation on
CountFetches(count, evs) ==
  LET named == {evs[i].id : i \in {j \in 1..Len(evs) : evs[j].event \in TaskEvents}}
      Returns(id) == Cardinality({i \in 1..Len(evs) :
                        evs[i].event = "task:processing" /\ evs[i].id = id})
  IN [id \in (DOMAIN count) \cup named |->
        (IF id \in DOMAIN count THEN count[id] ELSE 0) + Returns(id)]

\* emitEvent for each event of the step, in order
Emit(evs) ==
  /\ emitted' = evs
  /\ lastEvent' = Track(lastEvent, evs)
  /\ fetches' = CountFetches(fetches, evs)

ZeroStats(active) ==
  [tasksCreated |-> 0, pendingTasks |-> 0, processingTasks |-> 0,
   completedTasks |-> 0, failedTasks |-> 0, retriedTasks |-> 0,
   avgProcessingTime |-> <<0, 1>>, activeWorkers |-> active]

\* a returned object: ref tells whether it is a new object ("copy") or the
\* scheduler's own ("same"); kind is "task", "null" (not found), "stats",
\* "created" (the answer to a submission request, kept with the request) or
\* "none" (nothing returned yet)
NoSnapshot ==
  [kind |-> "none", ref |-> "copy", id |-> None, task |-> [status |-> "", retries |-> 0],
   hasResult |-> FALSE, stats |-> ZeroStats(0), queueLengths |-> <<0, 0, 0>>,
   processingCount |-> 0, request |-> <<>>, created |-> <<>>]

EmptyLanes == [p \in PrioritySet |-> <<>>]

\* the objects still referenced: by the task map or by an armed retry callback
Reachable(objs, stored, armed) ==
  [id \in {i \in DOMAIN objs : i \in stored \/ \E t \in armed : t.id = i} |-> objs[id]]

\* the supervisor's entry for a forked worker process: cluster worker id,
\* index, and whether SIGTERM was sent to it
Forked(id, index) == [id |-> id, index |-> index, termed |-> FALSE]

\* ---------------------------------------------------------------- Init
Init ==
  /\ queues = EmptyLanes
  /\ processing = <<>>
  /\ tasks = {}
  /\ taskObj = <<>>
  /\ results = {}
  /\ workers = <<>>
  /\ stats = ZeroStats(0)
  /\ timers = {}
  /\ now = 0
  /\ nextId = 1
  /\ alive = [w \in WorkerIds |-> FALSE]
  /\ isRunning = [w \in WorkerIds |-> FALSE]
  /\ cur = [w \in WorkerIds |-> None]
  /\ currentTask = [w \in WorkerIds |-> None]
  /\ spawns = 0
  /\ lastOp = Op("init", "", None, FALSE)
  /\ emitted = <<>>
  /\ arrival = EmptyLanes
  /\ fails = <<>>
  /\ sumDur = 0
  /\ nDone = 0
  /\ forked = {Forked(i + 1, i) : i \in 0..(NumWorkers - 1)}
  /\ forks = NumWorkers
  /\ respawn = {}
  /\ master = "running"
  /\ shutdownLeft = NoTime
  /\ checkDue = FALSE
  /\ crashes = 0
  /\ wake = [w \in WorkerIds |-> 0]
  /\ returned = NoSnapshot
  /\ lastEvent = <<>>
  /\ fetches = <<>>

\* ------------------------------------------------------------- addTask
\* taskData.maxRetries || config.worker.maxRetries
StoredMaxRetries(m) == IF m = 0 THEN DefaultMaxRetries ELSE m

NewTask(p, m) ==
  [priority |-> p, status |-> "pending", retries |-> 0,
   maxRetries |-> StoredMaxRetries(m), createdAt |-> now,
   startedAt |-> NoTime, workerId |-> ""]

Enqueue(q, id) == Unshift(q, id)

AddTask(p, m) ==
  LET taskId == nextId IN
  /\ taskObj' = taskObj @@ (taskId :> NewTask(p, m))
  /\ tasks' = tasks \cup {taskId}
  /\ queues' = [queues EXCEPT ![p] = Enqueue(@, taskId)]
  /\ stats' = [stats EXCEPT !.tasksCreated = @ + 1, !.pendingTasks = @ + 1]
  /\ nextId' = nextId + 1
  /\ Emit(<<Ev("task:created", taskId)>>)
  /\ lastOp' = Op("addTask", "", taskId, TRUE)
  /\ arrival' = [arrival EXCEPT ![p] = Append(@, taskId)]
  /\ fails' = fails @@ (taskId :> 0)
  /\ UNCHANGED <<processing, results, workers, timers, now, alive, isRunning, cur, currentTask, spawns, supVars, wake, returned,
                 sumDur, nDone>>

Submit(maxTasks) ==
  /\ nextId <= maxTasks
  /\ \E p \in PrioritySet, m \in MaxRetriesArgs : AddTask(p, m)

\* ------------------------------------------------- the submission routes
\* what a request may carry as priority: a valid one, or anything else
\* (nothing included), written "none"
RequestPriorities == PrioritySet \cup {"none"}

\* the priorities tried in the entries of a batch
BatchPriorities == {"high", "none"}

\* an entry of a request body: with or without a type
Entries(priorities) == [typed : BOOLEAN, priority : priorities]

\* the bug of another default lane
TaskPriorityLow(priority) == IF priority \in PrioritySet THEN priority ELSE "low"

\* validPriorities.includes(priority) ? priority : 'normal'
TaskPriority(priority) == IF priority \in PrioritySet THEN priority ELSE "normal"

\* the scheduler's data as the statements of a route find them, with the
\* events emitted and the summaries pushed so far
RouteState ==
  [queues |-> queues, tasks |-> tasks, taskObj |-> taskObj, stats |-> stats,
   nextId |-> nextId, arrival |-> arrival, fails |-> fails,
   emitted |-> <<>>, created |-> <<>>]

\* queueManager.addTask({ type, payload, maxRetries }, priority) and the
\* record of the task returned
AddTaskWith(st, p, m) ==
  LET taskId == st.nextId IN
  [st EXCEPT !.taskObj = @ @@ (taskId :> NewTask(p, m)),
             !.tasks = @ \cup {taskId},
             !.queues[p] = Enqueue(@, taskId),
             !.stats.tasksCreated = @ + 1,
             !.stats.pendingTasks = @ + 1,
             !.nextId = @ + 1,
             !.arrival[p] = Append(@, taskId),
             !.fails = @ @@ (taskId :> 0),
             !.emitted = Append(@, Ev("task:created", taskId)),
             !.created = Append(@, taskId)]

\* queueManager.addTask({ type, payload }, taskPriority) and the push of the
\* summary; the routes pass no maxRetries
AddTaskTo(st, p) == AddTaskWith(st, p, None)

\* the route's writes to the scheduler
RouteCommit(st) ==
  /\ queues' = st.queues
  /\ tasks' = st.tasks
  /\ taskObj' = st.taskObj
  /\ stats' = st.stats
  /\ nextId' = st.nextId
  /\ arrival' = st.arrival
  /\ fails' = st.fails
  /\ Emit(st.emitted)
  /\ UNCHANGED <<processing, results, workers, timers, now, alive, isRunning, cur,
                 currentTask, spawns, supVars, wake, sumDur, nDone>>

\* POST /: 400 without a type, else one addTask
PostTask(maxTasks) ==
  \E entry \in Entries(RequestPriorities) :
    LET st == IF entry.typed THEN AddTaskTo(RouteState, TaskPriority(entry.priority))
              ELSE RouteState
    IN
    /\ st.nextId - 1 <= maxTasks
    /\ RouteCommit(st)
    /\ returned' = [NoSnapshot EXCEPT !.kind = "created", !.request = <<entry>>,
                                       !.created = st.created]
    /\ lastOp' = Op("post", "", IF entry.typed THEN nextId ELSE None, entry.typed)

\* the values a caller of addTask gives as maxRetries
GivenMaxRetries == {0, 1, 2}

\* addTask called with a maxRetries value of the caller's
SubmitGiven(maxTasks) ==
  \E p \in PrioritySet, m \in GivenMaxRetries :
    LET st == AddTaskWith(RouteState, p, m) IN
    /\ nextId <= maxTasks
    /\ RouteCommit(st)
    /\ returned' = [NoSnapshot EXCEPT !.kind = "created",
                       !.request = <<[typed |-> TRUE, priority |-> p, maxRetries |-> m]>>,
                       !.created = st.created]
    /\ lastOp' = Op("addTask", "", nextId, TRUE)

\* the bug of leaving the loop at an entry without a type
BreakAtUntyped(entries, i) == Len(entries) + 1

\* if (!type) continue
ContinueAtUntyped(entries, i) == i + 1

RECURSIVE BatchLoop(_, _, _)
\* for (const taskData of tasks), from entry i on
BatchLoop(st, entries, i) ==
  IF i > Len(entries) THEN st
  ELSE IF ~entries[i].typed THEN BatchLoop(st, entries, ContinueAtUntyped(entries, i))
  ELSE BatchLoop(AddTaskTo(st, TaskPriority(entries[i].priority)), entries, i + 1)

\* the request bodies of at most maxLen entries
BatchRequests(maxLen) == UNION {[1..n -> Entries(BatchPriorities)] : n \in 0..maxLen}

\* POST /batch: 400 for an empty list, else the loop over the entries and
\* the answer with the summaries of the tasks created
PostBatch(maxTasks, maxLen) ==
  \E entries \in BatchRequests(maxLen) :
    LET st == BatchLoop(RouteState, entries, 1) IN
    /\ st.nextId - 1 <= maxTasks
    /\ RouteCommit(st)
    /\ returned' = [NoSnapshot EXCEPT !.kind = "created", !.request = entries,
                                       !.created = st.created]
    /\ lastOp' = Op("batch", "", Len(st.created), Len(entries) > 0)

\* --------------------------------------------------------- getNextTask
\* the bug of taking the first element (shift) where pop is meant
PopIndexFront(q) == 1

\* Array.prototype.pop: the element taken is the last one
PopIndex(q) == Len(q)

\* the bug of reading the id without taking it out of its lane
RECURSIVE PeekLanes(_, _, _)
PeekLanes(qs, known, i) ==
  IF i > Len(Priorities) THEN [queues |-> qs, taskId |-> None]
  ELSE LET p == Priorities[i] IN
       IF Len(qs[p]) > 0 /\ qs[p][Len(qs[p])] \in known
       THEN [queues |-> qs, taskId |-> qs[p][Len(qs[p])]]
       ELSE PeekLanes(qs, known, i + 1)

\* the for loop over ['high', 'normal', 'low'], from lane i on: a popped id
\* without a task record is dropped and the loop goes on to the next lane
RECURSIVE ScanLanes(_, _, _)
ScanLanes(qs, known, i) ==
  IF i > Len(Priorities) THEN [queues |-> qs, taskId |-> None]
  ELSE LET p == Priorities[i] IN
       IF Len(qs[p]) > 0
       THEN LET taskId == qs[p][PopIndex(qs[p])]
                rest == [qs EXCEPT ![p] = Splice(@, PopIndex(@))]
            IN IF taskId \in known
               THEN [queues |-> rest, taskId |-> taskId]
               ELSE ScanLanes(rest, known, i + 1)
       ELSE ScanLanes(qs, known, i + 1)

\* the bug of announcing a fetch that found nothing
EventsAtEmptyAnnounced(w) == <<Ev("task:processing", None)>>

\* return null follows the loop over the lanes; nothing is emitted
EventsAtEmpty(w) == <<>>

GetNextTask(w) ==
  LET scan == ScanLanes(queues, tasks, 1)
      taskId == scan.taskId
  IN
  /\ queues' = scan.queues
  /\ IF taskId # None
     THEN /\ taskObj' = [taskObj EXCEPT ![taskId].status = "processing",
                                        ![taskId].workerId = w,
                                        ![taskId].startedAt = now]
          /\ processing' = Append(processing, taskId)
          /\ stats' = [stats EXCEPT !.pendingTasks = @ - 1, !.processingTasks = @ + 1]
          /\ Emit(<<Ev("task:processing", taskId)>>)
          /\ arrival' = [arrival EXCEPT ![taskObj[taskId].priority] = RemoveFirst(@, taskId)]
     ELSE /\ Emit(EventsAtEmpty(w))
          /\ UNCHANGED <<taskObj, processing, stats, arrival>>
  /\ cur' = [cur EXCEPT ![w] = taskId]
  /\ currentTask' = [currentTask EXCEPT ![w] = taskId]
  /\ lastOp' = Op("getNextTask", w, taskId, taskId # None)
  /\ UNCHANGED <<tasks, results, workers, timers, now, nextId, alive, isRunning, spawns, supVars, wake, returned,
                 fails, sumDur, nDone>>

\* this.sleep(1000) of the catch block of Worker.poll has not resolved yet
Sleeping(w) == now < wake[w]

\* the bug of a loop that does not look at the running flag
LoopIgnoresStop(w) == alive[w]

\* while (this.isRunning)
LoopContinues(w) == alive[w] /\ isRunning[w]

\* Worker.poll: one iteration of the loop of an idle, running worker; a
\* returned task goes to processTask, which sets this.currentTask
FetchNext(W) ==
  \E w \in W : LoopContinues(w) /\ cur[w] = None /\ ~Sleeping(w) /\ GetNextTask(w)

\* -------------------------------------------------------- completeTask
\* the bug of weighting the old average with the new count
UpdateAverageNewCount(st, newTime) ==
  LET completed == IF st.completedTasks = 0 THEN 1 ELSE st.completedTasks
      currentAvg == st.avgProcessingTime
  IN Reduce(currentAvg[1] * completed + newTime * currentAvg[2],
            currentAvg[2] * completed)

\* updateAverageProcessingTime; the average is kept as an exact fraction <<n, d>>
UpdateAverageProcessingTime(st, newTime) ==
  LET completed == IF st.completedTasks = 0 THEN 1 ELSE st.completedTasks
      currentAvg == st.avgProcessingTime
  IN Reduce(currentAvg[1] * (completed - 1) + newTime * currentAvg[2],
            currentAvg[2] * completed)

\* task.completedAt - (task.startedAt || task.createdAt)
ProcessingTime(task, completedAt) ==
  completedAt - (IF task.startedAt = NoTime THEN task.createdAt ELSE task.startedAt)

\* the bug of counting the call before the lookup
MissingTaskCounted(taskId) ==
  /\ Emit(<<>>)
  /\ stats' = [stats EXCEPT !.processingTasks = @ - 1]
  /\ UNCHANGED <<queues, processing, tasks, taskObj, results, timers,
                 arrival, fails, sumDur, nDone>>

\* if (!task) return false: what completeTask and failTask do to the
\* scheduler when this.tasks has no entry for taskId
MissingTask(taskId) ==
  /\ Emit(<<>>)
  /\ UNCHANGED <<queues, processing, tasks, taskObj, results, stats, timers,
                 arrival, fails, sumDur, nDone>>

\* the scheduler's part of completeTask(taskId, result)
CompleteTask(taskId) ==
  IF taskId \notin tasks
  THEN MissingTask(taskId)
  ELSE LET task == taskObj[taskId]
           counted == [stats EXCEPT !.processingTasks = @ - 1, !.completedTasks = @ + 1]
           processingTime == ProcessingTime(task, now)
       IN /\ taskObj' = [taskObj EXCEPT ![taskId].status = "completed"]
          /\ results' = results \cup {taskId}
          /\ processing' = RemoveFirst(processing, taskId)
          /\ stats' = [counted EXCEPT !.avgProcessingTime =
                                        UpdateAverageProcessingTime(counted, processingTime)]
          /\ Emit(<<Ev("task:completed", taskId)>>)
          /\ sumDur' = sumDur + processingTime
          /\ nDone' = nDone + 1
          /\ UNCHANGED <<queues, tasks, timers, arrival, fails>>

\* incrementWorkerTaskCount
IncrementWorkerTaskCount(ws, w) ==
  IF w \in DOMAIN ws THEN [ws EXCEPT ![w].tasksProcessed = @ + 1] ELSE ws

\* the bug of leaving the marker as it is when processTask ends
FinallySkipped(w) == currentTask

\* finally { this.currentTask = null }
Finally(w) == [currentTask EXCEPT ![w] = None]

\* Worker.processTask, the handler returned: completeTask, then
\* incrementWorkerTaskCount, then the finally block
HandlerSucceeds(W) ==
  \E w \in W :
    /\ alive[w] /\ cur[w] # None
    /\ CompleteTask(cur[w])
    /\ workers' = IncrementWorkerTaskCount(workers, w)
    /\ cur' = [cur EXCEPT ![w] = None]
    /\ currentTask' = Finally(w)
    /\ lastOp' = Op("completeTask", w, cur[w], cur[w] \in tasks)
    /\ UNCHANGED <<now, nextId, alive, isRunning, spawns, supVars, wake, returned>>

\* ------------------------------------------------------------ failTask
\* the bug of computing the delay from the already incremented count
RetryDelayAfterIncrement(retries) == RetryDelay * Pow2(retries + 1)

\* config.worker.retryDelay * Math.pow(2, task.retries)
RetryDelayFor(retries) == RetryDelay * Pow2(retries)

\* the off-by-one bug of comparing with <=
CanRetryInclusive(task) == task.retries <= task.maxRetries

\* the bug of a retry without a bound
CanRetryAlways(task) == TRUE

\* task.retries < task.maxRetries
CanRetry(task) == task.retries < task.maxRetries

\* the bug of marking a task to retry as pending at once
StatusAfterFailPending(task) == IF CanRetry(task) THEN "pending" ELSE "failed"

\* the status failTask leaves the task in
StatusAfterFail(task) == IF CanRetry(task) THEN "retrying" ELSE "failed"

\* the bug of announcing the retry when the timer is armed
EventsAtRetryEager(taskId) == <<Ev("task:retrying", taskId)>>

\* the retry branch of failTask emits nothing; the timer callback does
EventsAtRetry(taskId) == <<>>

\* the scheduler's part of failTask(taskId, error)
FailTask(taskId) ==
  IF taskId \notin tasks
  THEN MissingTask(taskId)
  ELSE LET task == taskObj[taskId] IN
       /\ processing' = RemoveFirst(processing, taskId)
       /\ fails' = [fails EXCEPT ![taskId] = @ + 1]
       /\ IF CanRetry(task)
          THEN LET retryDelay == RetryDelayFor(task.retries) IN
               /\ taskObj' = [taskObj EXCEPT ![taskId].status = StatusAfterFail(task),
                                             ![taskId].retries = @ + 1]
               /\ timers' = timers \cup {[id |-> taskId, setAt |-> now, delay |-> retryDelay]}
               /\ stats' = [stats EXCEPT !.processingTasks = @ - 1]
               /\ Emit(EventsAtRetry(taskId))
          ELSE /\ taskObj' = [taskObj EXCEPT ![taskId].status = StatusAfterFail(task)]
               /\ stats' = [stats EXCEPT !.processingTasks = @ - 1, !.failedTasks = @ + 1]
               /\ Emit(<<Ev("task:failed", taskId)>>)
               /\ UNCHANGED timers
       /\ UNCHANGED <<queues, tasks, results, arrival, sumDur, nDone>>

\* Worker.processTask, the handler threw: failTask, then the finally block
HandlerFails(W) ==
  \E w \in W :
    /\ alive[w] /\ cur[w] # None
    /\ FailTask(cur[w])
    /\ cur' = [cur EXCEPT ![w] = None]
    /\ currentTask' = Finally(w)
    /\ lastOp' = Op("failTask", w, cur[w], cur[w] \in tasks)
    /\ UNCHANGED <<workers, now, nextId, alive, isRunning, spawns, supVars, wake, returned>>

\* Worker.processTask, a statement of the try block after the awaited
\* completeTask throws (incrementWorkerTaskCount, counted = FALSE, or
\* process.send, counted = TRUE): the catch block calls failTask for the task
\* that completeTask has just completed, then the finally block runs.
\* failTask finds the task stored, does not find its id in this.processing,
\* and treats it like any failed task.
ReportThrows(W) ==
  \E w \in W, counted \in BOOLEAN :
    LET taskId == cur[w]
        task == taskObj[taskId]
        completed == [stats EXCEPT !.processingTasks = @ - 1, !.completedTasks = @ + 1]
        processingTime == ProcessingTime(task, now)
        averaged == [completed EXCEPT !.avgProcessingTime =
                       UpdateAverageProcessingTime(completed, processingTime)]
    IN
    /\ alive[w] /\ taskId # None /\ taskId \in tasks
    /\ results' = results \cup {taskId}
    /\ processing' = RemoveFirst(processing, taskId)
    /\ sumDur' = sumDur + processingTime
    /\ nDone' = nDone + 1
    /\ workers' = IF counted THEN IncrementWorkerTaskCount(workers, w) ELSE workers
    /\ fails' = [fails EXCEPT ![taskId] = @ + 1]
    /\ IF CanRetry(task)
       THEN /\ taskObj' = [taskObj EXCEPT ![taskId].status = StatusAfterFail(task),
                                          ![taskId].retries = @ + 1]
            /\ timers' = timers \cup {[id |-> taskId, setAt |-> now,
                                        delay |-> RetryDelayFor(task.retries)]}
            /\ stats' = [averaged EXCEPT !.processingTasks = @ - 1]
            /\ Emit(<<Ev("task:completed", taskId)>>)
       ELSE /\ taskObj' = [taskObj EXCEPT ![taskId].status = StatusAfterFail(task)]
            /\ stats' = [averaged EXCEPT !.processingTasks = @ - 1, !.failedTasks = @ + 1]
            /\ Emit(<<Ev("task:completed", taskId), Ev("task:failed", taskId)>>)
            /\ UNCHANGED timers
    /\ cur' = [cur EXCEPT ![w] = None]
    /\ currentTask' = Finally(w)
    /\ lastOp' = Op("failTask", w, taskId, TRUE)
    /\ UNCHANGED <<queues, tasks, now, nextId, alive, isRunning, spawns, supVars, wake, returned, arrival>>

\* completeTask / failTask called with an id that was never handed out
CompleteUnknown ==
  /\ CompleteTask(nextId)
  /\ lastOp' = Op("completeTask", "", nextId, nextId \in tasks)
  /\ UNCHANGED <<workers, now, nextId, alive, isRunning, cur, currentTask, spawns, supVars, wake, returned>>

FailUnknown ==
  /\ FailTask(nextId)
  /\ lastOp' = Op("failTask", "", nextId, nextId \in tasks)
  /\ UNCHANGED <<workers, now, nextId, alive, isRunning, cur, currentTask, spawns, supVars, wake, returned>>

\* ------------------------------------------- the setTimeout callback
Expiry(t) == t.setAt + t.delay

\* the handler threw, at a time that leaves the retry timer room to expire
\* before the clock's last tick
HandlerFailsInTime(W, maxTime) ==
  /\ HandlerFails(W)
  /\ \A t \in timers' : Expiry(t) <= maxTime

\* the bug of re-inserting with push, at the end pop takes from
RequeueAtHead(q, id) == Append(q, id)

\* the bug of a callback that does not put the id back
RequeueDropped(q, id) == q

\* the bug of inserting the id twice
RequeueTwice(q, id) == <<id, id>> \o q

\* this.queues[task.priority].unshift(taskId) of the callback
Requeue(q, id) == Unshift(q, id)

RetryFire ==
  \E t \in timers :
    LET taskId == t.id
        p == taskObj[taskId].priority
    IN
    /\ now = Expiry(t)
    /\ timers' = timers \ {t}
    /\ queues' = [queues EXCEPT ![p] = Requeue(@, taskId)]
    /\ taskObj' = Reachable([taskObj EXCEPT ![taskId].status = "pending"], tasks, timers')
    /\ stats' = [stats EXCEPT !.pendingTasks = @ + 1, !.retriedTasks = @ + 1]
    /\ emitted' = <<Ev("task:retrying", taskId)>>
    /\ lastEvent' = Reachable(Track(lastEvent, emitted'), tasks, timers')
    /\ fetches' = Reachable(CountFetches(fetches, emitted'), tasks, timers')
    /\ lastOp' = Op("retryTimer", "", taskId, taskId \in tasks)
    /\ arrival' = IF taskId \in tasks THEN [arrival EXCEPT ![p] = Append(@, taskId)]
                  ELSE arrival
    /\ fails' = Reachable(fails, tasks, timers')
    /\ UNCHANGED <<processing, tasks, results, workers, now, nextId, alive, isRunning, cur, currentTask,
                   spawns, supVars, wake, returned, sumDur, nDone>>

\* the clock advances; a callback whose expiry is reached runs first
Tick(maxTime) ==
  /\ now < maxTime
  /\ \A t \in timers : Expiry(t) > now
  /\ now' = now + 1
  /\ lastOp' = Op("tick", "", None, FALSE)
  /\ Emit(<<>>)
  /\ UNCHANGED <<queues, processing, tasks, taskObj, results, workers, stats, timers,
                 nextId, alive, isRunning, cur, currentTask, spawns, supVars, wake, returned, arrival, fails, sumDur, nDone>>

\* ------------------------------------------------------------ clearAll
\* the activeWorkers entry of the stats object clearAll builds
ClearedActiveWorkers(st, ws) == Cardinality(DOMAIN ws)

\* a clear that also cancels the pending retry callbacks
ClearAllCancelling ==
  /\ queues' = EmptyLanes
  /\ processing' = <<>>
  /\ tasks' = {}
  /\ results' = {}
  /\ stats' = ZeroStats(ClearedActiveWorkers(stats, workers))
  /\ emitted' = <<>>
  /\ lastEvent' = <<>>
  /\ fetches' = <<>>
  /\ lastOp' = Op("clearAll", "", None, TRUE)
  /\ arrival' = EmptyLanes
  /\ sumDur' = 0
  /\ nDone' = 0
  /\ timers' = {}
  /\ taskObj' = <<>>
  /\ fails' = <<>>
  /\ UNCHANGED <<workers, now, nextId, alive, isRunning, cur, currentTask, spawns, supVars, wake, returned>>

\* clearAll: no clearTimeout, the armed callbacks stay armed
ClearAll ==
  /\ queues' = EmptyLanes
  /\ processing' = <<>>
  /\ tasks' = {}
  /\ results' = {}
  /\ stats' = ZeroStats(ClearedActiveWorkers(stats, workers))
  /\ emitted' = <<>>
  /\ lastEvent' = Reachable(lastEvent, {}, timers)
  /\ fetches' = Reachable(fetches, {}, timers)
  /\ lastOp' = Op("clearAll", "", None, TRUE)
  /\ arrival' = EmptyLanes
  /\ sumDur' = 0
  /\ nDone' = 0
  /\ taskObj' = Reachable(taskObj, {}, timers)
  /\ fails' = Reachable(fails, {}, timers)
  /\ UNCHANGED <<workers, timers, now, nextId, alive, isRunning, cur, currentTask, spawns, supVars, wake, returned>>

\* ------------------------------------------------------------- workers
\* registerWorker
RegisterWorker(w) ==
  /\ workers' = [x \in (DOMAIN workers) \cup {w} |->
                   IF x = w THEN [status |-> "idle", tasksProcessed |-> 0, currentTask |-> None]
                   ELSE workers[x]]
  /\ stats' = [stats EXCEPT !.activeWorkers = @ + 1]
  /\ Emit(<<Ev("worker:registered", w)>>)

\* unregisterWorker
UnregisterWorker(w) ==
  /\ workers' = [x \in (DOMAIN workers) \ {w} |-> workers[x]]
  /\ stats' = [stats EXCEPT !.activeWorkers = @ - 1]
  /\ Emit(<<Ev("worker:unregistered", w)>>)

\* a worker process is spawned and runs Worker.start
StartWorker(W, maxSpawns) ==
  \E w \in W :
    /\ ~alive[w]
    /\ spawns < maxSpawns
    /\ spawns' = spawns + 1
    /\ RegisterWorker(w)
    /\ alive' = [alive EXCEPT ![w] = TRUE]
    /\ isRunning' = [isRunning EXCEPT ![w] = TRUE]
    /\ lastOp' = Op("registerWorker", w, None, TRUE)
    /\ wake' = [wake EXCEPT ![w] = 0]
    /\ UNCHANGED <<supVars, returned>>
    /\ UNCHANGED <<queues, processing, tasks, taskObj, results, timers, now, nextId,
                   cur, currentTask, arrival, fails, sumDur, nDone>>

\* the worker process's SIGTERM handler: Worker.stop, then process.exit(0)
Sigterm(W) ==
  \E w \in W :
    /\ alive[w]
    /\ UnregisterWorker(w)
    /\ alive' = [alive EXCEPT ![w] = FALSE]
    /\ isRunning' = [isRunning EXCEPT ![w] = FALSE]
    /\ cur' = [cur EXCEPT ![w] = None]
    /\ currentTask' = [currentTask EXCEPT ![w] = None]
    /\ lastOp' = Op("unregisterWorker", w, None, TRUE)
    /\ UNCHANGED <<queues, processing, tasks, taskObj, results, timers, now, nextId,
                   spawns, supVars, wake, returned, arrival, fails, sumDur, nDone>>

\* Worker.stop called on a running worker whose process goes on: the flag is
\* cleared, the heartbeat interval is cancelled and the worker unregistered; a
\* processTask under way is not touched
Stop(W) ==
  \E w \in W :
    /\ alive[w] /\ isRunning[w]
    /\ isRunning' = [isRunning EXCEPT ![w] = FALSE]
    /\ UnregisterWorker(w)
    /\ lastOp' = Op("stop", w, cur[w], TRUE)
    /\ UNCHANGED <<queues, processing, tasks, taskObj, results, timers, now, nextId,
                   alive, cur, currentTask, spawns, supVars, wake, returned, arrival, fails, sumDur, nDone>>

\* the bug of a heartbeat that creates the record it does not find
HeartbeatCreates(ws, w, status, task) ==
  [x \in (DOMAIN ws) \cup {w} |->
     IF x = w THEN [status |-> status, tasksProcessed |-> 0, currentTask |-> task]
     ELSE ws[x]]

\* updateWorkerHeartbeat(workerId, status, currentTask); an idle report
\* stores '' as the task, which None stands for
UpdateWorkerHeartbeat(ws, w, status, task) ==
  IF w \in DOMAIN ws THEN [ws EXCEPT ![w].status = status, ![w].currentTask = task]
  ELSE ws

\* the setInterval callback of Worker.startHeartbeat, armed from start to stop;
\* its period is not modelled, it may run at any moment
Heartbeat(W) ==
  \E w \in W :
    /\ alive[w] /\ isRunning[w]
    /\ workers' = UpdateWorkerHeartbeat(workers, w,
                     IF currentTask[w] # None THEN "busy" ELSE "idle", currentTask[w])
    /\ lastOp' = Op("heartbeat", w, currentTask[w], currentTask[w] # None)
    /\ Emit(<<>>)
    /\ UNCHANGED <<queues, processing, tasks, taskObj, results, stats, timers, now,
                   nextId, alive, isRunning, cur, currentTask, spawns, supVars, wake, returned, arrival, fails,
                   sumDur, nDone>>

\* the bug of a catch block that gives the loop up
RethrowPollError(w) == [isRunning EXCEPT ![w] = FALSE]

\* the catch block of Worker.poll logs the error and leaves this.isRunning alone
CatchPollError(w) == isRunning

\* Worker.poll, getNextTask raises: the catch block logs the error and the
\* loop sleeps 1000 ms before its next iteration.  The scheduler's state is
\* as before the call.
FetchThrows(W, maxTime) ==
  \E w \in W :
    /\ LoopContinues(w) /\ cur[w] = None /\ ~Sleeping(w)
    /\ now + PollBackoff <= maxTime
    /\ wake' = [wake EXCEPT ![w] = now + PollBackoff]
    /\ isRunning' = CatchPollError(w)
    /\ lastOp' = Op("pollError", w, None, FALSE)
    /\ Emit(<<>>)
    /\ UNCHANGED <<queues, processing, tasks, taskObj, results, workers, stats, timers,
                   now, nextId, alive, cur, currentTask, spawns, supVars, returned, arrival,
                   fails, sumDur, nDone>>

\* the heartbeat callback, updateWorkerHeartbeat raises: the callback's own
\* catch block logs the error; the interval stays armed
HeartbeatThrows(W) ==
  \E w \in W :
    /\ alive[w] /\ isRunning[w]
    /\ lastOp' = Op("heartbeatError", w, currentTask[w], FALSE)
    /\ Emit(<<>>)
    /\ UNCHANGED <<queues, processing, tasks, taskObj, results, workers, stats, timers,
                   now, nextId, alive, isRunning, cur, currentTask, spawns, supVars, wake, returned,
                   arrival, fails, sumDur, nDone>>

\* the bug of handing out the scheduler's own object
SameObject == "same"

\* { ...task } and { ...this.stats, ... }: a new object with the fields' values;
\* status, retries and the counters are primitives
SpreadCopy == "copy"

\* getTaskStatus(taskId); the result is attached from the result store when
\* the status is completed
GetTaskStatusCall(ids) ==
  \E taskId \in ids :
    /\ returned' =
         IF taskId \notin tasks THEN [NoSnapshot EXCEPT !.kind = "null", !.id = taskId]
         ELSE [NoSnapshot EXCEPT !.kind = "task", !.ref = SpreadCopy, !.id = taskId,
                 !.task = [status |-> taskObj[taskId].status,
                           retries |-> taskObj[taskId].retries],
                 !.hasResult = IF taskObj[taskId].status = "completed"
                               THEN taskId \in results ELSE FALSE]
    /\ lastOp' = Op("getTaskStatus", "", taskId, taskId \in tasks)
    /\ Emit(<<>>)
    /\ UNCHANGED <<queues, processing, tasks, taskObj, results, workers, stats, timers,
                   now, nextId, alive, isRunning, cur, currentTask, spawns, supVars, wake,
                   arrival, fails, sumDur, nDone>>

\* getQueueStats()
GetQueueStatsCall ==
  /\ returned' = [NoSnapshot EXCEPT !.kind = "stats", !.ref = SpreadCopy, !.stats = stats,
                    !.queueLengths = <<Len(queues["high"]), Len(queues["normal"]),
                                       Len(queues["low"])>>,
                    !.processingCount = Len(processing)]
  /\ lastOp' = Op("getQueueStats", "", None, TRUE)
  /\ Emit(<<>>)
  /\ UNCHANGED <<queues, processing, tasks, taskObj, results, workers, stats, timers,
                 now, nextId, alive, isRunning, cur, currentTask, spawns, supVars, wake,
                 arrival, fails, sumDur, nDone>>

\* the caller writes to the object it was given: status and retries of a
\* task, tasksCreated of the statistics.  A write to the scheduler's own
\* object is a write to the scheduler's record.
MutateSnapshot ==
  /\ \/ /\ returned.kind = "task" /\ returned.task.status # "overwritten"
        /\ returned' = [returned EXCEPT !.task.status = "overwritten", !.task.retries = @ + 1]
        /\ IF returned.ref = "same" /\ returned.id \in tasks
           THEN taskObj' = [taskObj EXCEPT ![returned.id].status = "overwritten",
                                            ![returned.id].retries = @ + 1]
           ELSE UNCHANGED taskObj
        /\ UNCHANGED stats
     \/ /\ returned.kind = "stats" /\ returned.stats.tasksCreated >= 0
        /\ returned' = [returned EXCEPT !.stats.tasksCreated = 0 - 1]
        /\ IF returned.ref = "same"
           THEN stats' = [stats EXCEPT !.tasksCreated = 0 - 1]
           ELSE UNCHANGED stats
        /\ UNCHANGED taskObj
  /\ lastOp' = Op("overwrite", "", returned.id, TRUE)
  /\ Emit(<<>>)
  /\ UNCHANGED <<queues, processing, tasks, results, workers, timers,
                 now, nextId, alive, isRunning, cur, currentTask, spawns, supVars, wake,
                 arrival, fails, sumDur, nDone>>

\* updateWorkerHeartbeat or incrementWorkerTaskCount called for an id that
\* has no record in the worker table
ReportUnregistered(W) ==
  \E w \in W :
    /\ w \notin DOMAIN workers
    /\ \/ /\ workers' = UpdateWorkerHeartbeat(workers, w, "idle", None)
          /\ lastOp' = Op("updateWorkerHeartbeat", w, None, FALSE)
       \/ /\ workers' = IncrementWorkerTaskCount(workers, w)
          /\ lastOp' = Op("incrementWorkerTaskCount", w, None, FALSE)
    /\ Emit(<<>>)
    /\ UNCHANGED <<queues, processing, tasks, taskObj, results, stats, timers, now,
                   nextId, alive, isRunning, cur, currentTask, spawns, supVars, wake,
                   returned, arrival, fails, sumDur, nDone>>

\* the bug of a scheduler that takes back the task of a process that died
CrashRequeues(W) ==
  \E w \in W :
    LET taskId == cur[w] IN
    /\ alive[w] /\ taskId \in tasks
    /\ alive' = [alive EXCEPT ![w] = FALSE]
    /\ isRunning' = [isRunning EXCEPT ![w] = FALSE]
    /\ cur' = [cur EXCEPT ![w] = None]
    /\ currentTask' = [currentTask EXCEPT ![w] = None]
    /\ processing' = RemoveFirst(processing, taskId)
    /\ queues' = [queues EXCEPT ![taskObj[taskId].priority] = Requeue(@, taskId)]
    /\ taskObj' = [taskObj EXCEPT ![taskId].status = "pending"]
    /\ stats' = [stats EXCEPT !.processingTasks = @ - 1, !.pendingTasks = @ + 1]
    /\ arrival' = [arrival EXCEPT ![taskObj[taskId].priority] = Append(@, taskId)]
    /\ lastOp' = Op("crash", w, None, FALSE)
    /\ Emit(<<>>)
    /\ UNCHANGED <<tasks, results, workers, timers, now, nextId, spawns, supVars, wake,
                   returned, fails, sumDur, nDone>>

\* the worker process dies without running any handler
Crash(W) ==
  \E w \in W :
    /\ alive[w]
    /\ alive' = [alive EXCEPT ![w] = FALSE]
    /\ isRunning' = [isRunning EXCEPT ![w] = FALSE]
    /\ cur' = [cur EXCEPT ![w] = None]
    /\ currentTask' = [currentTask EXCEPT ![w] = None]
    /\ lastOp' = Op("crash", w, None, FALSE)
    /\ Emit(<<>>)
    /\ UNCHANGED <<queues, processing, tasks, taskObj, results, workers, stats, timers,
                   now, nextId, spawns, supVars, wake, returned, arrival, fails, sumDur, nDone>>

\* ------------------------------------------------------ the supervisors
\* Two programs supervise a pool of worker processes: workers/cluster.ts and
\* index.ts.  A worker process is seen from its supervisor: it is forked, it
\* may be sent SIGTERM, and it exits.  Time is counted in seconds on the armed
\* timers; the 100 ms check of cluster.ts runs at least once in every second,
\* and before any timer that was armed a second or more ago.

\* the bug of forking two processes for one index
ForkPair(index) ==
  /\ forked' = forked \cup {Forked(forks + 1, index), Forked(forks + 2, index)}
  /\ forks' = forks + 2

\* cluster.fork and workers.set
Fork(index) ==
  /\ forked' = forked \cup {Forked(forks + 1, index)}
  /\ forks' = forks + 1

\* an exit handler that arms no timer
RespawnNever(info) == {}

\* setTimeout(() => spawnWorker(workerInfo.index), 1000)
RespawnTimers(info) == {[index |-> info.index, left |-> RespawnDelay]}

\* a worker process exits, asked to or not, and the 'exit' handler of
\* spawnWorker runs: it arms a respawn whenever it finds the entry
ClusterWorkerExit ==
  \E p \in forked :
    /\ master \in {"running", "shutdown"}
    /\ p.termed \/ crashes < MaxCrashes
    /\ crashes' = IF p.termed THEN crashes ELSE crashes + 1
    /\ forked' = forked \ {p}
    /\ respawn' = respawn \cup RespawnTimers(p)
    /\ UNCHANGED <<forks, master, shutdownLeft, checkDue>>
    /\ UNCHANGED queueVars

\* a respawn timer runs
RespawnFire ==
  \E t \in respawn :
    /\ master \in {"running", "shutdown"}
    /\ t.left = 0 /\ ~checkDue
    /\ respawn' = respawn \ {t}
    /\ Fork(t.index)
    /\ UNCHANGED <<master, shutdownLeft, checkDue, crashes>>
    /\ UNCHANGED queueVars

\* worker.kill('SIGTERM') for every entry of the map
KillAll(procs) == {[p EXCEPT !.termed = TRUE] : p \in procs}

\* gracefulShutdown, on SIGTERM or SIGINT; a further signal runs it again, and
\* of the shutdown timers the first to be armed runs first
GracefulShutdown ==
  /\ master \in {"running", "shutdown"}
  /\ master' = "shutdown"
  /\ shutdownLeft' = IF master = "running" THEN ShutdownTimeout ELSE shutdownLeft
  /\ forked' = KillAll(forked)
  /\ UNCHANGED <<forks, respawn, checkDue, crashes>>
  /\ UNCHANGED queueVars

\* the checkInterval callback
CheckInterval ==
  /\ master = "shutdown"
  /\ master' = IF forked = {} THEN "exit0" ELSE master
  /\ checkDue' = FALSE
  /\ UNCHANGED <<forked, forks, respawn, shutdownLeft, crashes>>
  /\ UNCHANGED queueVars

\* the shutdownTimeout callback
ShutdownTimeoutFire ==
  /\ master = "shutdown"
  /\ shutdownLeft = 0 /\ ~checkDue
  /\ master' = "exit1"
  /\ UNCHANGED <<forked, forks, respawn, shutdownLeft, checkDue, crashes>>
  /\ UNCHANGED queueVars

\* a second passes for the supervisor: no armed timer is due
SupTick(checks) ==
  /\ master \in {"running", "shutdown"}
  /\ respawn # {} \/ shutdownLeft # NoTime
  /\ \A t \in respawn : t.left > 0
  /\ shutdownLeft # 0
  /\ ~checkDue
  /\ respawn' = {[t EXCEPT !.left = @ - 1] : t \in respawn}
  /\ shutdownLeft' = IF shutdownLeft = NoTime THEN NoTime ELSE shutdownLeft - 1
  /\ checkDue' = (checks /\ master = "shutdown")
  /\ UNCHANGED <<forked, forks, master, crashes>>
  /\ UNCHANGED queueVars

\* index.ts, cluster.on('exit'): a respawn is armed unless shuttingDown
IndexWorkerExit ==
  \E p \in forked :
    /\ master \in {"running", "shutdown"}
    /\ p.termed \/ crashes < MaxCrashes
    /\ crashes' = IF p.termed THEN crashes ELSE crashes + 1
    /\ forked' = forked \ {p}
    /\ respawn' = IF master = "running" THEN respawn \cup RespawnTimers(p) ELSE respawn
    /\ UNCHANGED <<forks, master, shutdownLeft, checkDue>>
    /\ UNCHANGED queueVars

\* index.ts, the respawn callback: it forks without looking at shuttingDown
IndexRespawnFire ==
  \E t \in respawn :
    /\ master \in {"running", "shutdown"}
    /\ t.left = 0
    /\ respawn' = respawn \ {t}
    /\ Fork(t.index)
    /\ UNCHANGED <<master, shutdownLeft, checkDue, crashes>>
    /\ UNCHANGED queueVars

\* index.ts, shutdown: returns at once when shuttingDown is set
IndexShutdown ==
  /\ master = "running"
  /\ master' = "shutdown"
  /\ forked' = KillAll(forked)
  /\ shutdownLeft' = IndexExitDelay
  /\ UNCHANGED <<forks, respawn, checkDue, crashes>>
  /\ UNCHANGED queueVars

\* index.ts, the callback shutdown arms: process.exit(0)
IndexExitFire ==
  /\ master = "shutdown"
  /\ shutdownLeft = 0
  /\ master' = "exit0"
  /\ UNCHANGED <<forked, forks, respawn, shutdownLeft, checkDue, crashes>>
  /\ UNCHANGED queueVars

\* ------------------------------------------------------ specifications
\* the scheduler, one worker that reports every task it fetched, and callers
\* that name ids the scheduler never handed out
Next ==
  \/ Submit(MaxTasks)
  \/ FetchNext(Solo)
  \/ HandlerSucceeds(Solo)
  \/ HandlerFails(Solo)
  \/ CompleteUnknown
  \/ FailUnknown
  \/ RetryFire
  \/ Tick(MaxTime)
  \/ ClearAll
  \/ StartWorker(Solo, 1)

Spec == Init /\ [][Next]_vars

\* the same scheduler and worker with more tasks and a shorter clock
NextLanes ==
  \/ Submit(LaneTasks)
  \/ FetchNext(Solo)
  \/ HandlerSucceeds(Solo)
  \/ HandlerFails(Solo)
  \/ RetryFire
  \/ Tick(LaneTime)
  \/ ClearAll
  \/ StartWorker(Solo, 1)

SpecLanes == Init /\ [][NextLanes]_vars

\* worker processes that are stopped, crash and are spawned again
NextWorkers ==
  \/ Submit(PoolTasks)
  \/ FetchNext(WorkerIds)
  \/ HandlerSucceeds(WorkerIds)
  \/ HandlerFails(WorkerIds)
  \/ RetryFire
  \/ Tick(PoolTime)
  \/ ClearAll
  \/ StartWorker(WorkerIds, MaxSpawns)
  \/ Sigterm(WorkerIds)
  \/ Crash(WorkerIds)

SpecWorkers == Init /\ [][NextWorkers]_vars

\* two running workers polling one scheduler
NextPoll ==
  \/ Submit(PollTasks)
  \/ FetchNext(WorkerIds)
  \/ HandlerSucceeds(WorkerIds)
  \/ HandlerFails(WorkerIds)
  \/ RetryFire
  \/ Tick(PollTime)
  \/ ClearAll
  \/ StartWorker(WorkerIds, Cardinality(WorkerIds))

SpecPoll == Init /\ [][NextPoll]_vars

\* one worker identity: its poll loop, its heartbeat, Worker.stop, the SIGTERM
\* handler of its process and a later start of a new process
NextLoop ==
  \/ Submit(LoopTasks)
  \/ FetchNext(Solo)
  \/ HandlerSucceeds(Solo)
  \/ HandlerFails(Solo)
  \/ RetryFire
  \/ Tick(LoopTime)
  \/ StartWorker(Solo, LoopSpawns)
  \/ Stop(Solo)
  \/ Sigterm(Solo)
  \/ Heartbeat(Solo)

SpecLoop == Init /\ [][NextLoop]_vars

\* the worker table under workers that start, stop, exit on SIGTERM, crash
\* and are started again
NextRegistry ==
  \/ Submit(RegistryTasks)
  \/ FetchNext(WorkerIds)
  \/ HandlerSucceeds(WorkerIds)
  \/ HandlerFails(WorkerIds)
  \/ ClearAll
  \/ StartWorker(WorkerIds, RegistrySpawns)
  \/ Stop(WorkerIds)
  \/ Sigterm(WorkerIds)
  \/ Crash(WorkerIds)
  \/ Heartbeat(WorkerIds)
  \/ ReportUnregistered(WorkerIds)

SpecRegistry == Init /\ [][NextRegistry]_vars

\* tasks, one worker that stays, handlers that settle, no clearAll
NextDrain ==
  \/ Submit(DrainTasks)
  \/ FetchNext(Solo)
  \/ HandlerSucceeds(Solo)
  \/ HandlerFailsInTime(Solo, DrainTime)
  \/ RetryFire
  \/ Tick(DrainTime)
  \/ StartWorker(Solo, 1)

SpecDrain == Init /\ [][NextDrain]_vars

\* a worker is started and keeps polling, every handler returns or throws,
\* expired timers fire and time passes
FairDrain ==
  /\ SpecDrain
  /\ WF_vars(StartWorker(Solo, 1))
  /\ WF_vars(FetchNext(Solo))
  /\ WF_vars(HandlerSucceeds(Solo) \/ HandlerFailsInTime(Solo, DrainTime))
  /\ WF_vars(RetryFire)
  /\ WF_vars(Tick(DrainTime))

\* one task through all its retries
NextRetry ==
  \/ Submit(RetryTasks)
  \/ FetchNext(Solo)
  \/ HandlerSucceeds(Solo)
  \/ HandlerFails(Solo)
  \/ RetryFire
  \/ Tick(RetryTime)
  \/ StartWorker(Solo, 1)

SpecRetry == Init /\ [][NextRetry]_vars

\* callers that choose the maxRetries of their tasks, and one worker
NextGiven ==
  \/ SubmitGiven(GivenTasks)
  \/ FetchNext(Solo)
  \/ HandlerSucceeds(Solo)
  \/ HandlerFails(Solo)
  \/ RetryFire
  \/ Tick(GivenTime)
  \/ StartWorker(Solo, 1)

SpecGiven == Init /\ [][NextGiven]_vars

\* the route POST / in front of the scheduler, and one worker
NextRoutes ==
  \/ PostTask(RouteTasks)
  \/ FetchNext(Solo)
  \/ HandlerSucceeds(Solo)
  \/ HandlerFails(Solo)
  \/ RetryFire
  \/ Tick(RouteTime)
  \/ ClearAll
  \/ StartWorker(Solo, 1)

SpecRoutes == Init /\ [][NextRoutes]_vars

\* the route POST /batch in front of the scheduler, and one worker whose
\* handlers succeed
NextBatch ==
  \/ PostBatch(BatchTasks, BatchLen)
  \/ FetchNext(Solo)
  \/ HandlerSucceeds(Solo)
  \/ StartWorker(Solo, 1)

SpecBatch == Init /\ [][NextBatch]_vars

\* a caller that asks for the status of tasks and for the statistics and
\* writes to what it gets
NextStatus ==
  \/ Submit(StatusTasks)
  \/ FetchNext(Solo)
  \/ HandlerSucceeds(Solo)
  \/ HandlerFails(Solo)
  \/ RetryFire
  \/ Tick(StatusTime)
  \/ ClearAll
  \/ StartWorker(Solo, 1)
  \/ GetTaskStatusCall(1..StatusTasks)
  \/ GetQueueStatsCall
  \/ MutateSnapshot

SpecStatus == Init /\ [][NextStatus]_vars

\* one worker whose poll loop meets handler, fetch and heartbeat errors
NextBackoff ==
  \/ Submit(BackoffTasks)
  \/ FetchNext(Solo)
  \/ HandlerSucceeds(Solo)
  \/ HandlerFails(Solo)
  \/ FetchThrows(Solo, BackoffTime)
  \/ HeartbeatThrows(Solo)
  \/ RetryFire
  \/ Tick(BackoffTime)
  \/ StartWorker(Solo, BackoffSpawns)
  \/ Stop(Solo)

SpecBackoff == Init /\ [][NextBackoff]_vars

\* the event loop runs what is runnable: a loop iteration that is due, the
\* settling of a handler's promise, an expired timer; time passes
FairBackoff ==
  /\ SpecBackoff
  /\ WF_vars(FetchNext(Solo))
  /\ WF_vars(HandlerSucceeds(Solo) \/ HandlerFails(Solo))
  /\ WF_vars(RetryFire)
  /\ WF_vars(Tick(BackoffTime))

\* one worker, and statements after completeTask that may throw
NextReport ==
  \/ Submit(ReportTasks)
  \/ FetchNext(Solo)
  \/ HandlerSucceeds(Solo)
  \/ HandlerFails(Solo)
  \/ ReportThrows(Solo)
  \/ RetryFire
  \/ Tick(ReportTime)
  \/ StartWorker(Solo, 1)

SpecReport == Init /\ [][NextReport]_vars

\* the supervisor of workers/cluster.ts
NextCluster ==
  \/ ClusterWorkerExit
  \/ RespawnFire
  \/ GracefulShutdown
  \/ CheckInterval
  \/ ShutdownTimeoutFire
  \/ SupTick(TRUE)

SpecCluster == Init /\ [][NextCluster]_vars

\* the same with timers that run when due and time that passes
FairCluster ==
  SpecCluster /\ WF_vars(RespawnFire) /\ WF_vars(SupTick(TRUE))

\* the supervisor of index.ts
NextIndex ==
  \/ IndexWorkerExit
  \/ IndexRespawnFire
  \/ IndexShutdown
  \/ IndexExitFire
  \/ SupTick(FALSE)

SpecIndex == Init /\ [][NextIndex]_vars

\* -------------------------------------------------------------- claims
Rank(p) == CHOOSE i \in 1..Len(Priorities) : Priorities[i] = p

Status(id) == taskObj[id].status

Lane(id) == taskObj[id].priority

InLane(id) == \E i \in 1..Len(queues[Lane(id)]) : queues[Lane(id)][i] = id

Armed(id) == \E t \in timers : t.id = id

\* the latest step was a getNextTask call that returned a task
Fetched == lastOp.op = "getNextTask" /\ lastOp.ret

\* the returned getQueueStats returns
GetQueueStats ==
  [counters |-> stats,
   queueLengths |-> [p \in PrioritySet |-> Len(queues[p])],
   processingCount |-> Len(processing)]

\* no task has been removed by clearAll
NothingCleared == tasks = 1..(nextId - 1)

\* C1: getNextTask never returns a task while a task of a higher priority is
\* pending: when it has just returned a task, no stored task of a lane ahead
\* of the returned task's lane has status pending.
PriorityPrecedence ==
  Fetched => \A id \in tasks :
               Status(id) = "pending" => Rank(Lane(id)) >= Rank(Lane(lastOp.id))

\* C2: of two tasks of one priority that have never failed, the one submitted
\* first is returned first: when getNextTask returns a task that never failed,
\* every never-failed task of its lane submitted before it was returned before.
FifoWithinLane ==
  (Fetched /\ fails[lastOp.id] = 0) =>
    \A a \in tasks :
      (a < lastOp.id /\ Lane(a) = Lane(lastOp.id) /\ fails[a] = 0)
        => taskObj[a].startedAt # NoTime

\* a first fetch of a task whose lane held an older task that was fetched
\* before it, and a third task that went through a retry
FifoWitness ==
  /\ Fetched /\ fails[lastOp.id] = 0
  /\ \E a \in tasks : /\ a < lastOp.id /\ Lane(a) = Lane(lastOp.id) /\ fails[a] = 0
                       /\ Status(a) = "completed"
  /\ \E c \in tasks : fails[c] > 0 /\ Lane(c) = Lane(lastOp.id)

\* C3: the retry callback puts the task at the tail of its lane, and
\* getNextTask takes the stored pending tasks of a lane in the order in which
\* they joined it (by submission or by retry): a re-enqueued task is returned
\* after all tasks that were pending in its lane when it joined and before all
\* that joined later.
RetryJoinsTail ==
  [][ /\ (lastOp'.op = "retryTimer" /\ lastOp'.ret) =>
           /\ queues'[Lane(lastOp'.id)] = <<lastOp'.id>> \o queues[Lane(lastOp'.id)]
           /\ \A p \in PrioritySet \ {Lane(lastOp'.id)} : queues'[p] = queues[p]
      /\ (Fetched' /\ \E x \in tasks : fails[x] > 0 /\ Status(x) = "pending"
                                        /\ Lane(x) = Lane(lastOp'.id)) =>
           lastOp'.id = Head(arrival[Lane(lastOp'.id)])
    ]_vars

\* a lane in which a re-enqueued task waits behind a task that was pending
\* when it joined and ahead of a task that was submitted later
RetryJoinsTailWitness ==
  \E p \in PrioritySet :
    /\ Len(arrival[p]) = 3
    /\ fails[arrival[p][1]] = 0 /\ fails[arrival[p][2]] > 0 /\ fails[arrival[p][3]] = 0
    /\ arrival[p][2] < arrival[p][1] /\ arrival[p][1] < arrival[p][3]
    /\ queues[p] = <<arrival[p][3], arrival[p][2], arrival[p][1]>>

\* C4: as long as no task was cleared, pendingTasks + processingTasks +
\* completedTasks + failedTasks equals tasksCreated.
CountersAddUp ==
  NothingCleared =>
    LET snapshot == GetQueueStats.counters IN
    snapshot.pendingTasks + snapshot.processingTasks + snapshot.completedTasks
      + snapshot.failedTasks = snapshot.tasksCreated

\* C5: completeTask and failTask with an id that is not in the task store
\* return false, change no counter, lane, in-flight entry, task record or
\* result, arm no timer and emit no event.
UnknownIdIsNoOp ==
  [][ (lastOp'.op \in {"completeTask", "failTask"} /\ lastOp'.id \notin tasks) =>
        /\ lastOp'.ret = FALSE
        /\ emitted' = <<>>
        /\ UNCHANGED <<queues, processing, tasks, taskObj, results, stats, timers>>
    ]_vars

\* a call with an id that was never handed out, made while one task is
\* pending and another is in flight
UnknownIdWitness ==
  /\ lastOp.op \in {"completeTask", "failTask"} /\ ~lastOp.ret
  /\ lastOp.id = nextId
  /\ stats.pendingTasks > 0 /\ stats.processingTasks > 0

\* C6: the i-th failure of a task with max-retries m, 1 <= i <= m, leaves it
\* retrying with retries = i and a retry armed, after which it is pending in
\* its lane; the (m+1)-th failure leaves it failed, counted once in
\* failedTasks, with no retry armed; a task is failed in no other way.
RetryLadder ==
  /\ \A id \in tasks :
       LET t == taskObj[id] IN
       /\ t.status = "retrying" =>
            /\ fails[id] >= 1 /\ fails[id] <= t.maxRetries
            /\ t.retries = fails[id]
            /\ Armed(id)
       /\ t.status = "failed" =>
            /\ fails[id] = t.maxRetries + 1
            /\ t.retries = t.maxRetries
            /\ ~Armed(id) /\ ~InLane(id)
       /\ t.status \in {"pending", "processing", "completed"} =>
            /\ fails[id] <= t.maxRetries
            /\ t.retries = fails[id]
            /\ ~Armed(id)
       /\ t.status = "pending" => InLane(id)
  /\ stats.failedTasks = Cardinality({id \in tasks : Status(id) = "failed"})
  /\ (lastOp.op = "retryTimer" /\ lastOp.ret) =>
       Status(lastOp.id) = "pending" /\ InLane(lastOp.id)

\* a task with max-retries 1 has failed for good, at its second failure
RetryLadderWitness ==
  \E id \in tasks : /\ Status(id) = "failed" /\ taskObj[id].maxRetries = 1
                     /\ fails[id] = 2 /\ stats.failedTasks = 1
                     /\ stats.retriedTasks >= 1

\* C7: the retry armed by the k-th failure of a task (k from 0) runs
\* RetryDelay * 2^k after that failure.
BackoffDoubles ==
  [][ \A t \in timers :
        (t \notin timers' /\ lastOp'.op = "retryTimer") =>
          now - t.setAt = RetryDelay * Pow2(fails[t.id] - 1)
    ]_vars

\* the retry of a second failure has run, twice the first delay after it
BackoffWitness ==
  /\ lastOp.op = "retryTimer" /\ lastOp.ret
  /\ fails[lastOp.id] = 2
  /\ Status(lastOp.id) = "pending"

\* C8: after n >= 1 completions since the last clear, avgProcessingTime is
\* the sum of their processing times divided by n.
AverageIsMean ==
  nDone >= 1 =>
    stats.avgProcessingTime[1] * nDone = sumDur * stats.avgProcessingTime[2]

\* two completions with a fractional mean, after a retry
AverageWitness ==
  /\ nDone = 2 /\ sumDur % 2 = 1
  /\ stats.retriedTasks >= 1

\* C9: clearAll zeroes the task counters and the lanes, empties the in-flight
\* set and the task store, and leaves activeWorkers and the worker records as
\* they were.
ClearAllFrame ==
  [][ lastOp'.op = "clearAll" =>
        /\ stats'.tasksCreated = 0 /\ stats'.pendingTasks = 0
        /\ stats'.processingTasks = 0 /\ stats'.completedTasks = 0
        /\ stats'.failedTasks = 0 /\ stats'.retriedTasks = 0
        /\ \A p \in PrioritySet : Len(queues'[p]) = 0
        /\ processing' = <<>> /\ tasks' = {}
        /\ stats'.activeWorkers = stats.activeWorkers
        /\ workers' = workers
    ]_vars

\* C10: a task's status changes only along pending -> processing,
\* processing -> completed | retrying | failed and retrying -> pending.
StatusSteps ==
  {<<"pending", "processing">>, <<"processing", "completed">>,
   <<"processing", "retrying">>, <<"processing", "failed">>,
   <<"retrying", "pending">>}

GetTaskStatus(id) == IF id \in tasks THEN taskObj[id].status ELSE "absent"

\* number of positions of the sequence s that hold x
Occurrences(s, x) == Cardinality({i \in 1..Len(s) : s[i] = x})

LaneOccurrences(id) ==
  Occurrences(queues["high"], id) + Occurrences(queues["normal"], id)
    + Occurrences(queues["low"], id)

ExclusiveFetch ==
  [][ Fetched' =>
        /\ lastOp'.id \in tasks /\ Status(lastOp'.id) = "pending"
        /\ Occurrences(processing, lastOp'.id) = 0
        /\ taskObj'[lastOp'.id].status = "processing"
        /\ taskObj'[lastOp'.id].workerId = lastOp'.worker
        /\ Occurrences(processing', lastOp'.id) = 1
        /\ \A v \in WorkerIds \ {lastOp'.worker} : cur'[v] # lastOp'.id
        /\ taskObj[lastOp'.id].startedAt # NoTime =>
             /\ fails[lastOp'.id] >= 1
             /\ taskObj[lastOp'.id].retries = fails[lastOp'.id]
    ]_vars

\* a worker has just fetched a re-enqueued task while the other worker is
\* executing a different task
ExclusiveFetchWitness ==
  /\ Fetched /\ fails[lastOp.id] = 1
  /\ \E v \in WorkerIds \ {lastOp.worker} :
       /\ cur[v] # None /\ cur[v] # lastOp.id
       /\ cur[v] \in tasks /\ Status(cur[v]) = "processing"
       /\ taskObj[cur[v]].workerId = v

\* C13: clearAll leaves the armed retry callbacks armed, and the callback of
\* a task that was cleared in the meantime still puts the id at the tail of
\* its lane and counts it in pendingTasks and retriedTasks, while
\* getTaskStatus reports nothing for the id; straight after a clear that no
\* addTask followed, the lane length, pendingTasks and retriedTasks are 1.
StaleRetryReinserts ==
  [][ /\ lastOp'.op = "clearAll" => timers' = timers
      /\ (lastOp'.op = "retryTimer" /\ ~lastOp'.ret) =>
           /\ lastOp'.id \notin tasks'
           /\ queues'[Lane(lastOp'.id)] = <<lastOp'.id>> \o queues[Lane(lastOp'.id)]
           /\ stats'.pendingTasks = stats.pendingTasks + 1
           /\ stats'.retriedTasks = stats.retriedTasks + 1
           /\ (stats = ZeroStats(stats.activeWorkers) /\ queues = EmptyLanes) =>
                /\ Len(queues'[Lane(lastOp'.id)]) = 1
                /\ stats'.pendingTasks = 1
                /\ stats'.retriedTasks = 1
    ]_vars

\* the callback of a cleared task has run on a scheduler that was empty since
\* the clear
StaleRetryWitness ==
  /\ lastOp.op = "retryTimer" /\ ~lastOp.ret
  /\ GetTaskStatus(lastOp.id) = "absent"
  /\ tasks = {} /\ stats.tasksCreated = 0
  /\ stats.pendingTasks = 1 /\ stats.retriedTasks = 1
  /\ \E p \in PrioritySet : queues[p] = <<lastOp.id>>

\* C14: a worker that is asked to stop (Worker.stop, or the SIGTERM handler of
\* its process) while it executes a task goes on executing it, so that the
\* outcome is reported and the task does not stay processing.
StopLetsTaskFinish ==
  [][ ( /\ lastOp'.op \in {"stop", "unregisterWorker"}
        /\ cur[lastOp'.worker] \in tasks
        /\ Status(cur[lastOp'.worker]) = "processing" ) =>
        /\ alive'[lastOp'.worker]
        /\ cur'[lastOp'.worker] = cur[lastOp'.worker]
    ]_vars

\* C15: a worker on which Worker.stop was called calls getNextTask no more,
\* whether the stop came while the loop slept or while a task was executing.
NoFetchAfterStop ==
  [][ lastOp'.op = "getNextTask" =>
        isRunning[lastOp'.worker] /\ isRunning'[lastOp'.worker]
    ]_vars

\* a worker stopped while it was executing a task has reported the outcome
\* and leaves a pending task in the lanes
NoFetchAfterStopWitness ==
  /\ lastOp.op \in {"completeTask", "failTask"} /\ lastOp.ret
  /\ alive[lastOp.worker] /\ ~isRunning[lastOp.worker]
  /\ cur[lastOp.worker] = None
  /\ \E id \in tasks : Status(id) = "pending" /\ InLane(id)

\* C20: Worker.currentTask is set exactly while processTask executes a task,
\* and cleared when it ends, by success or by failure; a heartbeat reports
\* busy with the id of the task under execution, and idle with no id when
\* none is.
MarkerTracksExecution ==
  [][ /\ \A w \in WorkerIds : currentTask'[w] = cur'[w]
      /\ lastOp'.op = "heartbeat" =>
           /\ lastOp'.ret = (cur[lastOp'.worker] # None)
           /\ lastOp'.id = cur[lastOp'.worker]
           /\ lastOp'.worker \in DOMAIN workers' =>
                /\ workers'[lastOp'.worker].status =
                     (IF cur[lastOp'.worker] # None THEN "busy" ELSE "idle")
                /\ workers'[lastOp'.worker].currentTask = cur[lastOp'.worker]
    ]_vars

\* an idle heartbeat after one task was completed and another has failed
MarkerWitness ==
  /\ lastOp.op = "heartbeat" /\ ~lastOp.ret /\ lastOp.id = None
  /\ workers[lastOp.worker].status = "idle"
  /\ workers[lastOp.worker].currentTask = None
  /\ \E a \in tasks : Status(a) = "completed"
  /\ \E b \in tasks : fails[b] >= 1

\* C16: once the supervisor has received a termination signal it forks no
\* worker process, whether a worker exits during the shutdown or a respawn
\* timer was armed before it.
NoSpawnAfterSignal ==
  [][ master # "running" => forks' = forks ]_vars

\* C17: while no shutdown is in progress, the exit of a worker process arms a
\* respawn for its index RespawnDelay ahead, a process is forked only by a
\* respawn timer that is due and for that timer's index, and a pool that is
\* short of NumWorkers processes gets back to NumWorkers.
PoolRecovers ==
  /\ [][ master = "running" =>
           /\ \A p \in forked :
                (\A q \in forked' : q.id # p.id) =>
                  [index |-> p.index, left |-> RespawnDelay] \in respawn'
           /\ forks' # forks =>
                \E t \in respawn :
                  /\ t.left = 0 /\ t \notin respawn'
                  /\ forked' = forked \cup {Forked(forks + 1, t.index)}
       ]_vars
  /\ (master = "running" /\ Cardinality(forked) < NumWorkers)
       ~> (master # "running" \/ Cardinality(forked) = NumWorkers)

\* the pool is complete again after two worker processes exited unasked
PoolRecoversWitness ==
  /\ master = "running" /\ crashes >= 2
  /\ Cardinality(forked) = NumWorkers /\ respawn = {}
  /\ forks = NumWorkers + crashes
  /\ {p.index : p \in forked} = 0..(NumWorkers - 1)

\* C18: after a termination signal the supervisor exits with code 0 only when
\* every worker process has exited, and with code 1 when the shutdown timer
\* runs while a worker process is live.
ExitCodes ==
  [][ /\ (master' = "exit0" /\ master # "exit0") => forked = {}
      /\ (master = "shutdown" /\ shutdownLeft = 0 /\ forked # {} /\ master' # master)
           => master' = "exit1"
    ]_vars

\* C19: the supervisor exits with code 1 only if a worker process that was
\* sent SIGTERM has not exited: when all of them exit before the shutdown
\* timer runs, it exits with code 0.
CleanExitWhenAllLeave ==
  master = "exit1" => \E p \in forked : p.termed

\* C21: for a task it fetched and executed, a worker reports one outcome to
\* the scheduler, a completion or a failure, never both, also when a
\* statement after the report throws.
OneOutcomePerFetch ==
  [][ ( /\ lastOp'.op \in {"completeTask", "failTask"}
        /\ lastOp'.worker \in WorkerIds /\ lastOp'.ret ) =>
        \/ nDone' = nDone + 1 /\ fails' = fails
        \/ nDone' = nDone /\ fails'[lastOp'.id] = fails[lastOp'.id] + 1
    ]_vars

\* C22: the poll loop of a running worker ends only through Stop.  A handler
\* error, a failing getNextTask and a failing heartbeat leave the worker
\* running; no getNextTask call is made before the 1000 ms sleep after a
\* failing one is over; and after each of the three the worker calls
\* getNextTask again unless it is stopped first.
PollLoopSurvives ==
  /\ [][ \A w \in Solo :
           /\ (isRunning[w] /\ ~isRunning'[w]) => (lastOp'.op = "stop" /\ lastOp'.worker = w)
           /\ (lastOp'.op = "pollError" /\ lastOp'.worker = w)
                => (isRunning'[w] /\ wake'[w] = now + PollBackoff)
           /\ (lastOp'.op = "getNextTask" /\ lastOp'.worker = w) => now >= wake[w]
       ]_vars
  /\ \A w \in Solo :
       ( /\ lastOp.worker = w /\ isRunning[w]
         /\ \/ lastOp.op \in {"pollError", "heartbeatError"}
            \/ lastOp.op = "failTask" /\ lastOp.ret )
         ~> (~isRunning[w] \/ (lastOp.op = "getNextTask" /\ lastOp.worker = w))

\* C22 witness: the worker that met a poll error has slept through the
\* backoff and now fetches a task whose handler failed before
PollLoopWitness ==
  /\ lastOp.op = "getNextTask" /\ lastOp.worker = "worker-1" /\ lastOp.ret
  /\ wake["worker-1"] > 0 /\ now >= wake["worker-1"]
  /\ isRunning["worker-1"]
  /\ \E id \in tasks : taskObj[id].retries > 0

\* C23: getTaskStatus returns null for an id that is not stored and otherwise
\* a copy of the task record, with a result exactly when the status is
\* completed; getTaskStatus and getQueueStats change nothing in the scheduler
\* and emit nothing; the statistics returned are the counters with the lane
\* lengths and the in-flight count; and a write to the status, the retries or
\* a counter of a returned object changes nothing in the scheduler.
QueriesAreSnapshots ==
  [][ /\ lastOp'.op \in {"getTaskStatus", "getQueueStats", "overwrite"} =>
           /\ UNCHANGED <<queues, processing, tasks, taskObj, results, workers, stats, timers>>
           /\ emitted' = <<>>
      /\ (lastOp'.op = "getTaskStatus" /\ lastOp'.id \notin tasks) => returned'.kind = "null"
      /\ (lastOp'.op = "getTaskStatus" /\ lastOp'.id \in tasks) =>
           /\ returned'.kind = "task" /\ returned'.id = lastOp'.id
           /\ returned'.task.status = Status(lastOp'.id)
           /\ returned'.task.retries = taskObj[lastOp'.id].retries
           /\ returned'.hasResult <=> (Status(lastOp'.id) = "completed")
      /\ lastOp'.op = "getQueueStats" =>
           /\ returned'.kind = "stats" /\ returned'.stats = stats
           /\ returned'.queueLengths = <<GetQueueStats.queueLengths["high"],
                                         GetQueueStats.queueLengths["normal"],
                                         GetQueueStats.queueLengths["low"]>>
           /\ returned'.processingCount = GetQueueStats.processingCount
    ]_vars

\* C23 witness: the caller has overwritten the status of the copy it got of a
\* completed task, result included, and the stored task is still completed
SnapshotWitness ==
  /\ lastOp.op = "overwrite"
  /\ returned.kind = "task" /\ returned.hasResult /\ returned.task.status = "overwritten"
  /\ returned.id \in tasks /\ Status(returned.id) = "completed"

\* C24: getNextTask called while the three lanes are empty returns null,
\* emits no event and leaves the lanes, the counters, the in-flight list, the
\* task records, the results, the worker table and the timers as they were.
EmptyFetchIsNoOp ==
  [][ (lastOp'.op = "getNextTask" /\ \A p \in PrioritySet : queues[p] = <<>>) =>
        /\ lastOp'.ret = FALSE /\ lastOp'.id = None
        /\ emitted' = <<>>
        /\ UNCHANGED <<queues, processing, tasks, taskObj, results, workers, stats, timers>>
    ]_vars

\* C24 witness: a worker has just been told there is no task, the lanes being
\* empty, while another task is in flight and a retry timer is armed
EmptyFetchWitness ==
  /\ lastOp.op = "getNextTask" /\ ~lastOp.ret
  /\ \A p \in PrioritySet : queues[p] = <<>>
  /\ Len(processing) = 1 /\ timers # {}
  /\ stats.processingTasks = 1 /\ stats.tasksCreated = 2

\* the task is processing and no live worker executes it: the process it was
\* handed to has ended
Orphaned(id) ==
  /\ id \in tasks /\ Status(id) = "processing"
  /\ \A w \in WorkerIds : cur[w] # id

\* C25: a task that is processing when the process of its worker ends stays
\* as it is, status processing and once in the in-flight list, through the
\* crash and through every later step but clearAll: it is not put back in a
\* lane, not failed, not completed and not handed to a worker, the respawned
\* worker of the same id included.
OrphanStaysProcessing ==
  [][ \A id \in tasks :
        ( /\ Orphaned(id) \/ (lastOp'.op = "crash" /\ cur[lastOp'.worker] = id)
          /\ lastOp'.op # "clearAll" ) =>
          /\ id \in tasks' /\ taskObj'[id] = taskObj[id]
          /\ Occurrences(processing', id) = 1
          /\ LaneOccurrences(id)' = 0
          /\ \A w \in WorkerIds : cur'[w] # id
          /\ ~(lastOp'.op \in {"completeTask", "failTask", "getNextTask"} /\ lastOp'.id = id)
    ]_vars

\* C25 witness: the worker that crashed with the task has been started again
\* under its id and has just been told there is no task, while the task is
\* still processing in its name
OrphanWitness ==
  \E id \in tasks, w \in WorkerIds :
    /\ Orphaned(id) /\ taskObj[id].workerId = w
    /\ alive[w] /\ spawns >= 2
    /\ lastOp = Op("getNextTask", w, None, FALSE)
    /\ Occurrences(processing, id) = 1 /\ stats.processingTasks = 1

IsTyped(entry) == entry.typed

\* the entries of a request that have a type, in list order
TypedEntries(entries) == SelectSeq(entries, IsTyped)

\* the ids of the sequence ids whose task is in lane p, in order
OfLane(ids, objs, p) ==
  LET InP(id) == objs[id].priority = p IN SelectSeq(ids, InP)

\* number of positions of the lanes qs that hold id
OccurrencesIn(qs, id) ==
  Occurrences(qs["high"], id) + Occurrences(qs["normal"], id) + Occurrences(qs["low"], id)

\* C26: a batch request with a non-empty list creates one pending task for
\* every entry with a type and none for the others, in list order, entries
\* after an entry without a type included: the k-th task created has the
\* priority of the k-th typed entry and arrives in its lane after the tasks
\* of the entries before it; the count reported and the growth of
\* tasksCreated both equal the number of typed entries.
BatchCreatesTyped ==
  [][ (lastOp'.op = "batch" /\ Len(returned'.request) > 0) =>
        LET typed == TypedEntries(returned'.request)
            created == returned'.created
        IN
        /\ lastOp'.id = Len(typed)
        /\ Len(created) = Len(typed)
        /\ stats'.tasksCreated = stats.tasksCreated + Len(typed)
        /\ stats'.pendingTasks = stats.pendingTasks + Len(typed)
        /\ tasks' = tasks \cup {created[k] : k \in 1..Len(created)}
        /\ Cardinality(tasks') = Cardinality(tasks) + Len(typed)
        /\ \A k \in 1..Len(created) :
             /\ created[k] \notin tasks
             /\ taskObj'[created[k]].status = "pending"
             /\ taskObj'[created[k]].retries = 0
             /\ taskObj'[created[k]].priority =
                  IF typed[k].priority \in {"high", "normal", "low"}
                  THEN typed[k].priority ELSE "normal"
             /\ OccurrencesIn(queues', created[k]) = 1
        /\ \A p \in PrioritySet :
             arrival'[p] = arrival[p] \o OfLane(created, taskObj', p)
        /\ \A id \in tasks : taskObj'[id] = taskObj[id]
    ]_vars

\* C26 witness: a batch of a typed entry, an entry without a type and another
\* typed entry has created two tasks, after one task was already there
BatchWitness ==
  /\ lastOp.op = "batch" /\ lastOp.id = 2
  /\ Len(returned.request) = 3
  /\ returned.request[1].typed /\ ~returned.request[2].typed /\ returned.request[3].typed
  /\ Len(returned.created) = 2 /\ stats.tasksCreated = 3

\* C27: a submission with a type succeeds and creates one task: its id is
\* new (held by no stored task, no lane, no in-flight entry, no armed timer),
\* its status is pending, its retries 0; the id is once in the requested lane
\* (normal when the request names no valid priority), at the end where new
\* tasks join; tasksCreated and pendingTasks grow by one; the rest of that
\* lane, the other lanes, the in-flight list, the other counters, the other
\* task records, the results, the timers and the worker table are unchanged.
SubmitAddsOne ==
  [][ (lastOp'.op = "post" /\ lastOp'.ret) =>
        LET id == lastOp'.id
            requested == returned'.request[1].priority
            p == IF requested \in {"high", "normal", "low"} THEN requested ELSE "normal"
        IN
        /\ id \notin tasks /\ id \notin DOMAIN taskObj
        /\ OccurrencesIn(queues, id) = 0 /\ Occurrences(processing, id) = 0
        /\ \A t \in timers : t.id # id
        /\ returned'.created = <<id>>
        /\ tasks' = tasks \cup {id}
        /\ taskObj'[id].status = "pending" /\ taskObj'[id].retries = 0
        /\ taskObj'[id].priority = p
        /\ queues' = [queues EXCEPT ![p] = <<id>> \o @]
        /\ stats' = [stats EXCEPT !.tasksCreated = @ + 1, !.pendingTasks = @ + 1]
        /\ \A other \in DOMAIN taskObj : taskObj'[other] = taskObj[other]
        /\ emitted' = <<Ev("task:created", id)>>
        /\ UNCHANGED <<processing, results, timers, workers>>
    ]_vars

\* C27 witness: a request without a priority has put its task in the normal
\* lane while the task submitted before it is in flight
SubmitWitness ==
  /\ lastOp.op = "post" /\ lastOp.ret
  /\ returned.request[1].priority = "none"
  /\ queues["normal"] = <<lastOp.id>>
  /\ Len(processing) = 1 /\ stats.tasksCreated = 2 /\ stats.pendingTasks = 1

\* C28: the worker table holds a record of a worker from its registration to
\* its unregistration: a record appears only by registerWorker, with status
\* idle and no task processed, and it is there at every getNextTask call of
\* the worker; it disappears only by Worker.stop or the SIGTERM handler of
\* the worker's process, which leave no record behind when the process
\* exits; a heartbeat or a processed-count report for an id without a record
\* creates none.
RecordFromStartToStop ==
  [][ \A w \in WorkerIds :
        /\ (w \notin DOMAIN workers /\ w \in DOMAIN workers')
             => (lastOp'.op = "registerWorker" /\ lastOp'.worker = w)
        /\ (lastOp'.op = "registerWorker" /\ lastOp'.worker = w)
             => /\ w \in DOMAIN workers'
                /\ workers'[w].status = "idle" /\ workers'[w].tasksProcessed = 0
                /\ cur'[w] = None
        /\ (lastOp'.op = "getNextTask" /\ lastOp'.worker = w) => w \in DOMAIN workers
        /\ (w \in DOMAIN workers /\ w \notin DOMAIN workers')
             => (lastOp'.op \in {"stop", "unregisterWorker"} /\ lastOp'.worker = w)
        /\ (lastOp'.op \in {"stop", "unregisterWorker"} /\ lastOp'.worker = w)
             => w \notin DOMAIN workers'
        /\ ( /\ lastOp'.worker = w /\ w \notin DOMAIN workers
             /\ lastOp'.op \in {"heartbeat", "updateWorkerHeartbeat",
                                "incrementWorkerTaskCount", "completeTask"} )
             => w \notin DOMAIN workers'
    ]_vars

\* C28 witness: a worker stopped while it executed a task has reported the
\* completion, processed-count report included, and has no record; the other
\* worker has its record
RecordWitness ==
  \E w \in WorkerIds, v \in WorkerIds :
    /\ lastOp.op = "completeTask" /\ lastOp.worker = w /\ lastOp.ret
    /\ alive[w] /\ ~isRunning[w] /\ w \notin DOMAIN workers
    /\ v \in DOMAIN workers /\ alive[v]

\* C29: the events of a task follow its states.  task:created is the first
\* event about a task; a task:processing event comes when the last event
\* about the task is task:created or task:retrying; task:retrying is emitted
\* by the retry timer when it puts the id back in its lane, once for each
\* time, and not by failTask; task:completed is emitted once by each
\* completeTask, task:failed once by each failTask that fails the task for
\* good, and getNextTask emits task:processing once for the task it returns.
EventsFollowStates ==
  [][ /\ \A i \in 1..Len(emitted') :
           LET e == emitted'[i] IN
           e.event \in TaskEvents =>
             /\ e.event = "task:created" =>
                  (e.id \notin DOMAIN lastEvent /\ lastOp'.op = "addTask" /\ lastOp'.id = e.id)
             /\ e.event = "task:processing" =>
                  /\ e.id \in DOMAIN lastEvent
                  /\ lastEvent[e.id] \in {"task:created", "task:retrying"}
             /\ e.event = "task:retrying" =>
                  /\ lastOp'.op = "retryTimer" /\ lastOp'.id = e.id
                  /\ OccurrencesIn(queues', e.id) = OccurrencesIn(queues, e.id) + 1
             /\ e.event = "task:completed" =>
                  (lastOp'.op = "completeTask" /\ lastOp'.id = e.id /\ lastOp'.ret)
             /\ e.event = "task:failed" =>
                  /\ lastOp'.op = "failTask" /\ lastOp'.id = e.id /\ lastOp'.ret
                  /\ taskObj'[e.id].status = "failed"
      /\ lastOp'.op = "addTask" => emitted' = <<Ev("task:created", lastOp'.id)>>
      /\ lastOp'.op = "retryTimer" => emitted' = <<Ev("task:retrying", lastOp'.id)>>
      /\ (lastOp'.op = "getNextTask" /\ lastOp'.ret) =>
           emitted' = <<Ev("task:processing", lastOp'.id)>>
      /\ (lastOp'.op = "completeTask" /\ lastOp'.ret) =>
           emitted' = <<Ev("task:completed", lastOp'.id)>>
      /\ (lastOp'.op = "failTask" /\ lastOp'.ret) =>
           emitted' = IF taskObj'[lastOp'.id].status = "failed"
                      THEN <<Ev("task:failed", lastOp'.id)>> ELSE <<>>
      /\ lastOp'.op \notin {"addTask", "retryTimer", "getNextTask", "completeTask", "failTask"}
           => \A i \in 1..Len(emitted') : emitted'[i].event \notin TaskEvents
    ]_vars

\* C29 witness: the events of a task were created, processing, retrying,
\* processing, and the last failure, which found the retries used up, has
\* just emitted task:failed
EventsWitness ==
  /\ lastOp.op = "failTask" /\ lastOp.ret
  /\ lastOp.id \in tasks /\ Status(lastOp.id) = "failed"
  /\ taskObj[lastOp.id].retries = 1
  /\ emitted = <<Ev("task:failed", lastOp.id)>>
  /\ lastEvent[lastOp.id] = "task:failed"

\* the task submitted last and the maxRetries its caller gave
LastSubmitted == returned.created[1]

GivenFor == returned.request[1].maxRetries

\* C30: addTask stores the maxRetries value its caller gives, 0 included: the
\* task submitted last has the value given for it, and when the value is 0
\* its first failTask leaves it failed, with no retry timer armed.
ZeroRetriesStored ==
  /\ [](returned.kind = "created" /\ LastSubmitted \in tasks
          => taskObj[LastSubmitted].maxRetries = GivenFor)
  /\ [][ ( /\ returned.kind = "created" /\ GivenFor = 0
           /\ lastOp'.op = "failTask" /\ lastOp'.id = LastSubmitted /\ lastOp'.ret )
           => /\ taskObj'[LastSubmitted].status = "failed"
              /\ timers' = timers
     ]_vars

\* C31: getNextTask returns null only when no stored task is pending: a call
\* made while some stored task has status pending returns a task.
PendingIsFetched ==
  [][ (lastOp'.op = "getNextTask" /\ \E id \in tasks : Status(id) = "pending")
        => lastOp'.ret
    ]_vars

\* C32: a stored task with maxRetries m has been returned by getNextTask at
\* most m + 1 times, each return being followed by at most one completeTask
\* or failTask of the worker that got the task.
FetchesBounded ==
  \A id \in tasks : fetches[id] <= taskObj[id].maxRetries + 1

\* C32 witness: a task with the default bound of 3 retries was returned four
\* times and has failed for good
FetchesWitness ==
  \E id \in tasks :
    /\ taskObj[id].maxRetries = DefaultMaxRetries
    /\ fetches[id] = DefaultMaxRetries + 1 /\ fails[id] = DefaultMaxRetries + 1
    /\ Status(id) = "failed"

\* the task has reached a terminal status
Terminal(id) == Status(id) \in {"completed", "failed"}

\* C33: with a worker that keeps polling, handlers that settle and timers
\* that fire, and without clearAll, crash or stop, every submitted task
\* reaches status completed or failed; and whenever all submitted tasks have,
\* the lanes and the in-flight list are empty.
EveryTaskTerminates ==
  /\ \A id \in 1..DrainTasks : (id \in tasks) ~> (id \in tasks /\ Terminal(id))
  /\ []( (\A id \in tasks : Terminal(id)) =>
           ((\A p \in PrioritySet : queues[p] = <<>>) /\ processing = <<>>) )

\* C33 witness: two tasks were submitted, one is completed and one has failed
\* after a retry, and lanes, in-flight list and timers are empty
DrainedWitness ==
  /\ tasks = 1..DrainTasks
  /\ \E id \in tasks : Status(id) = "completed"
  /\ \E id \in tasks : Status(id) = "failed" /\ taskObj[id].retries = 1
  /\ \A p \in PrioritySet : queues[p] = <<>>
  /\ processing = <<>> /\ timers = {}

\* ------------------------------------------- completeTask and failTask
\* called by any caller
CallTasks == 2
CallTime == 1
MaxCalls == 3

\* the guard that keeps the counters of the explored calls finite
CallsLeft ==
  /\ stats.completedTasks + stats.failedTasks < MaxCalls
  /\ stats.processingTasks > 0 - MaxCalls

\* completeTask(taskId, result) is a public method: a caller passes the id of
\* any stored task, whatever its status
CompleteCall ==
  \E taskId \in tasks :
    /\ CallsLeft
    /\ CompleteTask(taskId)
    /\ lastOp' = Op("completeTask", "", taskId, TRUE)
    /\ UNCHANGED <<workers, now, nextId, alive, isRunning, cur, currentTask, spawns,
                   supVars, wake, returned>>

\* failTask(taskId, error), likewise
FailCall ==
  \E taskId \in tasks :
    /\ CallsLeft
    /\ FailTask(taskId)
    /\ lastOp' = Op("failTask", "", taskId, TRUE)
    /\ UNCHANGED <<workers, now, nextId, alive, isRunning, cur, currentTask, spawns,
                   supVars, wake, returned>>

\* the scheduler with callers of completeTask and failTask for any stored id
NextCalls ==
  \/ Submit(CallTasks)
  \/ FetchNext(Solo)
  \/ CompleteCall
  \/ FailCall
  \/ RetryFire
  \/ Tick(CallTime)
  \/ StartWorker(Solo, 1)

SpecCalls == Init /\ [][NextCalls]_vars

\* C34: whatever the status of the task that completeTask and failTask are
\* called for, no counter of the statistics is negative and completedTasks +
\* failedTasks is at most tasksCreated.
CountersStayNatural ==
  /\ stats.pendingTasks >= 0 /\ stats.processingTasks >= 0
  /\ stats.completedTasks >= 0 /\ stats.failedTasks >= 0
  /\ stats.retriedTasks >= 0
  /\ stats.completedTasks + stats.failedTasks <= stats.tasksCreated

\* C35: the snapshot getQueueStats returns has pendingTasks equal to the sum
\* of the three lane lengths and processingTasks equal to processingCount,
\* after any addTask, getNextTask, completeTask and failTask of a worker,
\* retry timer and clearAll.
SnapshotCountersAgree ==
  [][ lastOp'.op = "getQueueStats" =>
        /\ returned'.stats.pendingTasks =
             returned'.queueLengths[1] + returned'.queueLengths[2] + returned'.queueLengths[3]
        /\ returned'.stats.processingTasks = returned'.processingCount
    ]_vars

\* C36: activeWorkers equals the number of records of the worker table and is
\* never negative, whatever registerWorker, heartbeat, unregisterWorker and
\* clearAll calls were made: a worker that crashed without unregistering and
\* registers again under its id, and an unregisterWorker for an id without a
\* record, included.
ActiveWorkersIsTableSize ==
  /\ stats.activeWorkers = Cardinality(DOMAIN workers)
  /\ stats.activeWorkers >= 0

\* C37: every id in a lane is the id of a stored task with status pending,
\* and every id in the in-flight list is the id of a stored task with status
\* processing; no entry refers to a task that clearAll removed.
EntriesAreStored ==
  /\ \A p \in PrioritySet : \A i \in 1..Len(queues[p]) :
       queues[p][i] \in tasks /\ Status(queues[p][i]) = "pending"
  /\ \A i \in 1..Len(processing) :
       processing[i] \in tasks /\ Status(processing[i]) = "processing"

\* C38: the supervisor has at most NumWorkers live worker processes and at
\* most one for each index, so that no two live processes were given the
\* same WORKER_ID, whatever the order of exits, respawn timers and shutdown
\* signals.
OneProcessPerIndex ==
  /\ Cardinality(forked) <= NumWorkers
  /\ \A p, q \in forked : p.index = q.index => p.id = q.id
  /\ \A p \in forked : p.index \in 0..(NumWorkers - 1)

\* C38 witness: during a shutdown, after a worker crashed and was respawned,
\* the pool is complete with a process that was respawned after the signal
\* next to one the signal was sent to
RespawnedInShutdownWitness ==
  /\ master = "shutdown" /\ crashes >= 1
  /\ Cardinality(forked) = NumWorkers
  /\ {p.index : p \in forked} = 0..(NumWorkers - 1)
  /\ \E p \in forked : p.termed
  /\ \E q \in forked : ~q.termed /\ q.id > NumWorkers + 1

====
